---- MODULE Spec2Model ----
(***************************************************************************)
(* Model of mpyl's incremental invalidation engine                         *)
(* (src/src/mpyl/stages/discovery.py): find_build_set and the functions it *)
(* calls.  Paths, project names and the project filter are sequences of    *)
(* characters, so that str.startswith and str.split are computed on raw    *)
(* characters as the code computes them.                                   *)
(* The Sbt test step (src/src/mpyl/steps/test/sbt.py) is modelled next to  *)
(* it, with a specification of its own (SbtSpec).                          *)
(* So are the helm install (steps/deploy/k8s/helm.py, HelmSpec), the       *)
(* upgrade of project manifests (projects/versioning.py, UpgradeSpec) and  *)
(* the cluster lookup (steps/deploy/k8s/cluster.py, ClusterSpec).          *)
(***************************************************************************)
EXTENDS Naturals, Sequences, FiniteSets

VARIABLES
    loaded_projects,    \* the caller's project set (argument all_projects)
    changes_in_branch,  \* the caller's history list
    stages,             \* the caller's stage list
    build_all,
    selected_stage,
    selected_projects,
    pc,                 \* position in find_build_set: "loop", "map", "done"
    idx,                \* index of the stage the for loop is at
    all_projects,       \* the local name all_projects (rebound at line 133)
    build_set,          \* the dict find_build_set builds
    todo,               \* projects the map of build_project_executions has not visited
    maybe_executions,   \* results of the map so far (None included)
    last,               \* the last call of _to_project_execution: project, stage, Output read, result
    reads               \* how often Output.try_read was called, per project name and stage

\* the Sbt test step, TestSbt.execute
VARIABLES
    step_project,       \* step_input.project.name
    sbt_config,         \* SbtConfig: the sbt command and the coverage setting
    step_pc,            \* position in execute
    command_compile,    \* the local command_compile
    command_test,       \* the local command_test
    test_run,           \* the Output of the test command (local output)
    step_output         \* the Output that execute returns

\* helm.install and helm.install_with_values_yaml
VARIABLES
    helm_call,          \* the function entered and its arguments
    helm_pc,            \* position in the call
    helm_ran,           \* the commands handed to a subprocess so far, in order
    helm_removed,       \* the local removed (an Output), None before
    helm_result         \* what the call returned or raised, None before

\* versioning.upgrade_to_latest, applied to a manifest and then to its own result
VARIABLES
    heap,               \* the objects (manifests) alive, by reference
    to_upgrade,         \* reference held by the parameter to_upgrade
    upgraded,           \* reference held by the local upgraded
    upgrade_i,          \* the loop variable i (as an index from 1)
    upgrade_pc,         \* position in upgrade_to_latest
    passed,             \* the manifests as they were when each call was entered
    returned            \* the references returned by the calls so far

\* cluster.get_cluster_config_for_project
VARIABLES
    kubernetes_config,  \* run_properties.config["kubernetes"]
    target,             \* run_properties.target
    deployment_cluster, \* project.deployment.cluster, None without deployment or cluster
    cluster_override,   \* the local cluster_override
    cluster_pc,         \* position in get_cluster_config_for_project
    default_cluster,    \* the local default_cluster
    cluster_result      \* what the call returned or raised, None before

discovery_vars ==
    <<loaded_projects, changes_in_branch, stages, build_all, selected_stage,
      selected_projects, pc, idx, all_projects, build_set, todo,
      maybe_executions, last, reads>>

step_vars == <<step_project, sbt_config, step_pc, command_compile, command_test,
               test_run, step_output>>

helm_vars == <<helm_call, helm_pc, helm_ran, helm_removed, helm_result>>

upgrade_vars == <<heap, to_upgrade, upgraded, upgrade_i, upgrade_pc, passed, returned>>

cluster_vars == <<kubernetes_config, target, deployment_cluster, cluster_override,
                  cluster_pc, default_cluster, cluster_result>>

deploy_vars == <<helm_vars, upgrade_vars, cluster_vars>>

vars == <<discovery_vars, step_vars, deploy_vars>>

inputs == <<loaded_projects, changes_in_branch, stages, build_all, selected_stage,
            selected_projects>>

(***************************** bounds ***************************************)
\* longest history explored for a single project
MaxRevs == 3
\* longest history explored together with every selection policy
MaxRevsWide == 1
\* largest project set
MaxProjects == 2

(***************************** values ***************************************)
\* Python's None, and Optional values
None == [none |-> TRUE]

Some(x) == [some |-> x]

IsNone(v) == v = None

\* deploy.STAGE_NAME
DEPLOY_STAGE_NAME == "deploy"

BUILD_STAGE_NAME == "build"

StageNames == {BUILD_STAGE_NAME, DEPLOY_STAGE_NAME}

\* a stage configuration that is present but falsy (an empty value)
EmptyConfig == Some("")

StepConfig == Some("step")

\* str.startswith
startswith(s, prefix) ==
    /\ Len(prefix) <= Len(s)
    /\ SubSeq(s, 1, Len(prefix)) = prefix

\* truthiness of an Optional[str] whose string is a TLA+ string
Truthy(v) == ~IsNone(v) /\ v.some # ""

\* truthiness of an Optional[str] whose string is a sequence of characters
TruthyChars(v) == ~IsNone(v) /\ v.some # <<>>

(***************************** files and revisions **************************)
FileAX == <<"a", "/", "x">>

FileABX == <<"a", "b", "/", "x">>

FileSU == <<"s", "/", "u">>

Files == {FileAX, FileABX, FileSU}

\* the sets of files one revision touches
TouchSets == {{FileAX, FileABX}, {FileSU}}

\* hash of the revision with ordinal k; the hashes of a history are distinct
HashOf(k) == <<"h", k>>

ForeignHash == <<"h", 0>>

Revision(k, files) == [hash |-> HashOf(k), ord |-> k, files_touched |-> files]

RECURSIVE Permutations(_)
\* every order in which the elements of S can be listed
Permutations(S) ==
    IF S = {} THEN {<<>>}
    ELSE UNION {{<<x>> \o p : p \in Permutations(S \ {x})} : x \in S}

\* histories of n revisions with ordinals 1..n, supplied in any order
HistoriesOfLen(n) ==
    UNION {{[j \in 1..n |-> Revision(perm[j], touched[perm[j]])] :
                perm \in Permutations(1..n)} :
           touched \in [1..n -> TouchSets]}

Histories(max) == UNION {HistoriesOfLen(n) : n \in 0..max}

(***************************** projects *************************************)
Dependencies(build, deploy) ==
    Some([build |-> build, deploy |-> deploy])

Stages(build, deploy) == [build |-> build, deploy |-> deploy]

Project(name, root, stgs, deps) ==
    [name |-> name, root_path |-> root, stages |-> stgs, dependencies |-> deps]

NameA == <<"A">>

NameB == <<"B">>

NameC == <<"C">>

RootA == <<"a">>

RootAB == <<"a", "b">>

DepS == <<"s", "/">>
\* a root directory written without a trailing slash, outside "a" and "ab"
RootS == <<"s">>

ProjectUniverse ==
    { Project(NameA, RootA, Stages(StepConfig, StepConfig), None),
      Project(NameB, RootAB, Stages(StepConfig, StepConfig),
              Dependencies({DepS}, {})),
      Project(NameB, RootAB, Stages(StepConfig, None),
              Dependencies({}, {DepS})),
      Project(NameC, RootS, Stages(None, StepConfig), Dependencies({DepS}, {RootA})),
      Project(NameC, RootAB, Stages(EmptyConfig, EmptyConfig), None) }

ProjectSets(max) ==
    {ps \in SUBSET ProjectUniverse :
        /\ Cardinality(ps) <= max
        /\ \A p, q \in ps : p.name = q.name => p = q}

\* Stages.for_stage
stages_for_stage(stgs, stage) == stgs[stage]

\* Dependencies.set_for_stage
set_for_stage(deps, stage) == deps[stage]

(***************************** outputs **************************************)
Artifact(revision) == Some([revision |-> revision])

Output(success, produced_artifact) ==
    Some([success |-> success, produced_artifact |-> produced_artifact])

\* what Output.try_read can return for a history
Outputs(history) ==
    {None} \cup
    {Output(ok, art) :
        ok \in BOOLEAN,
        art \in {None} \cup {Artifact(h) :
                    h \in {ForeignHash} \cup {history[j].hash : j \in DOMAIN history}}}

(***************************** discovery.py *********************************)
\* path lies in the directory prefix or below it: a match of whole path components
under(path, prefix) ==
    /\ startswith(path, prefix)
    /\ \/ Len(path) = Len(prefix)
       \/ prefix # <<>> /\ prefix[Len(prefix)] = "/"
       \/ path[Len(prefix) + 1] = "/"

\* is_invalidated matching whole path components
is_invalidated_by_component(project, stage, path) ==
    \/ under(path, project.root_path)
    \/ /\ ~IsNone(project.dependencies)
       /\ \E d \in set_for_stage(project.dependencies.some, stage) : under(path, d)

\* is_invalidated looking only at the project's root
is_invalidated_root_only(project, stage, path) ==
    startswith(path, project.root_path)

\* is_invalidated looking at the dependencies of every stage
is_invalidated_any_stage(project, stage, path) ==
    \/ startswith(path, project.root_path)
    \/ /\ ~IsNone(project.dependencies)
       /\ \E s \in StageNames :
            \E d \in set_for_stage(project.dependencies.some, s) : startswith(path, d)

\* is_invalidated (logging left out)
is_invalidated(project, stage, path) ==
    LET deps == project.dependencies
        deps_for_stage == IF ~IsNone(deps) THEN set_for_stage(deps.some, stage) ELSE {}
        matching == {d \in deps_for_stage : startswith(path, d)}
        touched_dependency ==
            IF ~IsNone(deps) /\ matching # {}
            THEN Some(CHOOSE d \in matching : TRUE)
            ELSE None
        startswith_root == startswith(path, project.root_path)
    IN  startswith_root \/ ~IsNone(touched_dependency)

\* output_invalidated without the comparison of the artifact's revision
output_invalidated_any_revision(output, revision_hash) ==
    IF IsNone(output) THEN TRUE
    ELSE IF ~output.some.success THEN TRUE
    ELSE IF IsNone(output.some.produced_artifact) THEN TRUE
    ELSE FALSE

\* output_invalidated without the test of output.success
output_invalidated_ignoring_success(output, revision_hash) ==
    IF IsNone(output) THEN TRUE
    ELSE IF IsNone(output.some.produced_artifact) THEN TRUE
    ELSE IF output.some.produced_artifact.some.revision # revision_hash THEN TRUE
    ELSE FALSE

\* output_invalidated
output_invalidated(output, revision_hash) ==
    IF IsNone(output) THEN TRUE
    ELSE IF ~output.some.success THEN TRUE
    ELSE IF IsNone(output.some.produced_artifact) THEN TRUE
    ELSE IF output.some.produced_artifact.some.revision # revision_hash THEN TRUE
    ELSE FALSE

RECURSIVE InsertByOrd(_, _)
\* insert revision r into the ord-sorted list, after the entries with an equal ord
InsertByOrd(sorted_list, r) ==
    IF sorted_list = <<>> THEN <<r>>
    ELSE IF r.ord < Head(sorted_list).ord THEN <<r>> \o sorted_list
    ELSE <<Head(sorted_list)>> \o InsertByOrd(Tail(sorted_list), r)

\* the history taken in its list order: sorted(...) left out
ListOrder(change_history) == change_history

RECURSIVE SortedByOrd(_)
\* sorted(change_history, key=lambda c: c.ord): ascending and stable
SortedByOrd(change_history) ==
    IF change_history = <<>> THEN <<>>
    ELSE InsertByOrd(SortedByOrd(SubSeq(change_history, 1, Len(change_history) - 1)),
                     change_history[Len(change_history)])

\* reversed(...)
Reversed(list) == [j \in 1..Len(list) |-> list[Len(list) + 1 - j]]

\* the for loop left after its first pass: only the newest revision counts
WalkNewestOnly(output, stage, to_visit, relevant) ==
    IF to_visit = <<>> THEN relevant
    ELSE relevant \cup Head(to_visit).files_touched

RECURSIVE WalkInclusive(_, _, _, _)
\* the for loop taking the files of the revision it stops at
WalkInclusive(output, stage, to_visit, relevant) ==
    IF to_visit = <<>> THEN relevant
    ELSE LET history == Head(to_visit)
         IN  IF stage = DEPLOY_STAGE_NAME \/ output_invalidated(output, history.hash)
             THEN WalkInclusive(output, stage, Tail(to_visit),
                                relevant \cup history.files_touched)
             ELSE relevant \cup history.files_touched

RECURSIVE WalkAnyStage(_, _, _, _)
\* the for loop without the test for the deploy stage
WalkAnyStage(output, stage, to_visit, relevant) ==
    IF to_visit = <<>> THEN relevant
    ELSE LET history == Head(to_visit)
         IN  IF output_invalidated(output, history.hash)
             THEN WalkAnyStage(output, stage, Tail(to_visit),
                               relevant \cup history.files_touched)
             ELSE relevant

RECURSIVE Walk(_, _, _, _)
\* the for loop of _to_relevant_changes over the revisions still to visit
Walk(output, stage, to_visit, relevant) ==
    IF to_visit = <<>> THEN relevant
    ELSE LET history == Head(to_visit)
         IN  IF stage = DEPLOY_STAGE_NAME \/ output_invalidated(output, history.hash)
             THEN Walk(output, stage, Tail(to_visit),
                       relevant \cup history.files_touched)
             ELSE relevant

\* the caller's list as list.sort would leave it: sorted in place
history_sorted_in_place(change_history) == SortedByOrd(change_history)

\* line 62: sorted(...) and reversed(...) build new sequences, so the list that
\* the caller passed is as it was when the walk is over
history_after_walk(change_history) == change_history

\* Output.try_read called once for every revision the loop visits, as if
\* line 59 stood inside the loop
reads_per_revision(change_history) == Len(change_history)

\* line 59: _to_relevant_changes calls Output.try_read once, before the loop
reads_of_walk(change_history) == 1

\* the read counts after n more reads of the Output of key
Counted(counts, key, n) ==
    [k \in DOMAIN counts \cup {key} |->
        IF k = key
        THEN (IF key \in DOMAIN counts THEN counts[key] ELSE 0) + n
        ELSE counts[k]]

\* _to_relevant_changes, given the Output that Output.try_read returned
to_relevant_changes(output, stage, change_history) ==
    Walk(output, stage, Reversed(SortedByOrd(change_history)), {})

ProjectExecution(project, changed_files) ==
    [project |-> project, changed_files |-> changed_files]

\* _to_project_execution returning an execution also when no file is left
to_project_execution_always(project, stage, change_history, output) ==
    LET relevant_changes == to_relevant_changes(output, stage, change_history)
    IN  Some(ProjectExecution(project,
                {c \in relevant_changes : is_invalidated(project, stage, c)}))

\* _to_project_execution recording the project's root instead of the changed path
to_project_execution_root(project, stage, change_history, output) ==
    LET relevant_changes == to_relevant_changes(output, stage, change_history)
    IN  IF \E c \in relevant_changes : is_invalidated(project, stage, c)
        THEN Some(ProjectExecution(project, {project.root_path}))
        ELSE None

\* _to_project_execution carrying the relevant changes unfiltered
to_project_execution_unfiltered(project, stage, change_history, output) ==
    LET relevant_changes == to_relevant_changes(output, stage, change_history)
    IN  IF \E c \in relevant_changes : is_invalidated(project, stage, c)
        THEN Some(ProjectExecution(project, relevant_changes))
        ELSE None

\* _to_project_execution after the participation test, given the Output read
to_project_execution(project, stage, change_history, output) ==
    LET relevant_changes == to_relevant_changes(output, stage, change_history)
        files_changed_for_this_project ==
            {c \in relevant_changes : is_invalidated(project, stage, c)}
    IN  IF files_changed_for_this_project # {}
        THEN Some(ProjectExecution(project, files_changed_for_this_project))
        ELSE None

\* the participation test left out
NotInStageNever(project, stage) == FALSE

\* the participation test of _to_project_execution: for_stage(stage) is None
NotInStage(project, stage) == IsNone(stages_for_stage(project.stages, stage))

\* for_stage: the projects whose stage configuration is truthy
for_stage(projects, stage) ==
    {p \in projects : Truthy(stages_for_stage(p.stages, stage))}

RECURSIVE Split(_, _)
\* str.split(sep) for a one-character separator
Split(s, sep) ==
    IF \A j \in 1..Len(s) : s[j] # sep THEN <<s>>
    ELSE LET k == CHOOSE j \in 1..Len(s) :
                      s[j] = sep /\ \A m \in 1..(j - 1) : s[m] # sep
         IN  <<SubSeq(s, 1, k - 1)>> \o Split(SubSeq(s, k + 1, Len(s)), sep)

Comma == ","

\* projects_list of find_build_set, as a set: only membership is tested
projects_list == {Split(selected_projects.some, Comma)[j] :
                      j \in 1..Len(Split(selected_projects.some, Comma))}

\* the filter of lines 133-135 left out: every project is kept
FilterByNameKeepAll(projects) == projects

\* filter(lambda p: p.name in projects_list, all_projects)
FilterByName(projects) == {p \in projects : p.name \in projects_list}

\* the update of line 146 made only for a set that is not empty
DictUpdateIfAny(dict, key, value) ==
    IF value = {} THEN dict
    ELSE [k \in DOMAIN dict \cup {key} |-> IF k = key THEN value ELSE dict[k]]

\* build_set.update({stage: project_executions})
DictUpdate(dict, key, value) ==
    [k \in DOMAIN dict \cup {key} |-> IF k = key THEN value ELSE dict[k]]

EmptyDict == [k \in {} |-> {}]

(***************************** the calls explored ***************************)
Call(stage_list, all, stage, names) ==
    [stages |-> stage_list, build_all |-> all, selected_stage |-> stage,
     selected_projects |-> names]

StageLists ==
    {<<BUILD_STAGE_NAME, DEPLOY_STAGE_NAME>>, <<DEPLOY_STAGE_NAME, BUILD_STAGE_NAME>>}

SelectedStages == {None, Some(BUILD_STAGE_NAME), Some(DEPLOY_STAGE_NAME), Some("postdeploy")}

SelectedProjects ==
    {None, Some(<<>>), Some(NameA), Some(<<"A", ",", "B">>), Some(NameC),
     Some(<<"X">>)}

\* every selection policy
Calls ==
    {Call(l, all, stage, names) :
        l \in StageLists, all \in BOOLEAN, stage \in SelectedStages,
        names \in SelectedProjects}

\* incremental calls that evaluate one stage
SingleStageCalls ==
    {Call(<<BUILD_STAGE_NAME, DEPLOY_STAGE_NAME>>, FALSE, Some(stage), None) :
        stage \in StageNames}

Eval(called, project, stage, read, output, relevant, execution) ==
    [called |-> called, project |-> project, stage |-> stage, read |-> read,
     output |-> output, relevant |-> relevant, execution |-> execution]

NoEval == Eval(FALSE, None, "", FALSE, None, {}, None)

\* find_build_set is entered: lines 122-125
Enter(projects, history, call) ==
    /\ loaded_projects = projects
    /\ changes_in_branch = history
    /\ stages = call.stages
    /\ build_all = call.build_all
    /\ selected_stage = call.selected_stage
    /\ selected_projects = call.selected_projects
    /\ pc = "loop"
    /\ idx = 1
    /\ all_projects = projects
    /\ build_set = EmptyDict
    /\ todo = {}
    /\ maybe_executions = {}
    /\ last = NoEval
    /\ reads = EmptyDict

\* no Sbt test step is running
StepIdle ==
    /\ step_project = <<>>
    /\ sbt_config = [sbt_command |-> <<>>, test_with_coverage |-> FALSE]
    /\ step_pc = "idle"
    /\ command_compile = <<>>
    /\ command_test = <<>>
    /\ test_run = None
    /\ step_output = None

\* no helm call is in progress
HelmIdle ==
    /\ helm_call = None
    /\ helm_pc = "idle"
    /\ helm_ran = <<>>
    /\ helm_removed = None
    /\ helm_result = None

\* no manifest is being upgraded
UpgradeIdle ==
    /\ heap = <<>>
    /\ to_upgrade = 0
    /\ upgraded = 0
    /\ upgrade_i = 1
    /\ upgrade_pc = "idle"
    /\ passed = <<>>
    /\ returned = <<>>

\* no cluster is being looked up
ClusterIdle ==
    /\ kubernetes_config = None
    /\ target = "idle"
    /\ deployment_cluster = None
    /\ cluster_override = None
    /\ cluster_pc = "idle"
    /\ default_cluster = None
    /\ cluster_result = None

FindBuildSetEntered ==
    \/ \E projects \in ProjectSets(1), history \in Histories(MaxRevs),
           call \in SingleStageCalls :
            Enter(projects, history, call)
    \/ \E projects \in ProjectSets(MaxProjects), history \in Histories(MaxRevsWide),
           call \in Calls :
            Enter(projects, history, call)

Init == FindBuildSetEntered /\ StepIdle /\ HelmIdle /\ UpgradeIdle /\ ClusterIdle

(***************************** find_build_set *******************************)
stage_at_idx == stages[idx]

\* the test of line 128 left out: no stage is skipped
SkippedNever == FALSE

\* line 128 applied only when selected_stage names a stage of the list
SkippedIfListed ==
    /\ Truthy(selected_stage)
    /\ \E j \in DOMAIN stages : stages[j] = selected_stage.some
    /\ selected_stage.some # stage_at_idx

\* line 128: if selected_stage and selected_stage != stage.name
Skipped == Truthy(selected_stage) /\ selected_stage.some # stage_at_idx

\* line 131: if build_all or selected_projects
Forced == build_all \/ TruthyChars(selected_projects)

\* lines 128-129: continue
SkipStage ==
    /\ pc = "loop"
    /\ idx <= Len(stages)
    /\ Skipped
    /\ idx' = idx + 1
    /\ UNCHANGED <<inputs, pc, all_projects, build_set, todo, maybe_executions, last>>
    /\ UNCHANGED <<reads, step_vars, deploy_vars>>

\* the filter result narrowed to the projects of the stage, as if line 133
\* rebound all_projects to the result of for_stage
ProjectsOfStageKept ==
    for_stage(IF TruthyChars(selected_projects)
              THEN FilterByName(all_projects)
              ELSE all_projects, stage_at_idx)

\* lines 132-135: all_projects after the filter; it stays narrowed for the
\* stages that follow
FilteredProjects ==
    IF TruthyChars(selected_projects)
    THEN FilterByName(all_projects)
    ELSE all_projects

\* lines 131-137 and 146: forced and filtered scheduling of one stage
ForcedStage ==
    /\ pc = "loop"
    /\ idx <= Len(stages)
    /\ ~Skipped
    /\ Forced
    /\ all_projects' = FilteredProjects
    /\ build_set' = DictUpdate(build_set, stage_at_idx,
                        {ProjectExecution(p, {}) : p \in for_stage(all_projects', stage_at_idx)})
    /\ idx' = idx + 1
    /\ UNCHANGED <<inputs, pc, todo, maybe_executions, last>>
    /\ UNCHANGED <<reads, step_vars, deploy_vars>>

\* line 139: build_project_executions is entered
StartMap ==
    /\ pc = "loop"
    /\ idx <= Len(stages)
    /\ ~Skipped
    /\ ~Forced
    /\ pc' = "map"
    /\ todo' = all_projects
    /\ maybe_executions' = {}
    /\ last' = NoEval
    /\ UNCHANGED <<inputs, idx, all_projects, build_set>>
    /\ UNCHANGED <<reads, step_vars, deploy_vars>>

\* lines 98-105: the map calls _to_project_execution on one project (lines 71-89)
MapProject ==
    /\ pc = "map"
    /\ \E project \in todo :
        /\ todo' = todo \ {project}
        /\ IF NotInStage(project, stage_at_idx)
           THEN /\ maybe_executions' = maybe_executions \cup {None}
                /\ last' = Eval(TRUE, project, stage_at_idx, FALSE, None, {}, None)
                /\ UNCHANGED <<changes_in_branch, reads>>
           ELSE \E output \in Outputs(changes_in_branch) :
                LET execution == to_project_execution(project, stage_at_idx,
                                                      changes_in_branch, output)
                IN  /\ maybe_executions' = maybe_executions \cup {execution}
                    /\ last' = Eval(TRUE, project, stage_at_idx, TRUE, output,
                                     to_relevant_changes(output, stage_at_idx,
                                                         changes_in_branch),
                                     execution)
                    /\ changes_in_branch' = history_after_walk(changes_in_branch)
                    /\ reads' = Counted(reads, <<project.name, stage_at_idx>>,
                                        reads_of_walk(changes_in_branch))
    /\ UNCHANGED <<loaded_projects, stages, build_all, selected_stage,
                   selected_projects, pc, idx, all_projects, build_set>>
    /\ UNCHANGED <<step_vars, deploy_vars>>

\* lines 106-110 and 146: the executions that are not None become the stage's set
EndMap ==
    /\ pc = "map"
    /\ todo = {}
    /\ build_set' = DictUpdate(build_set, stage_at_idx,
                        {e.some : e \in maybe_executions \ {None}})
    /\ pc' = "loop"
    /\ idx' = idx + 1
    /\ UNCHANGED <<inputs, all_projects, todo, maybe_executions, last>>
    /\ UNCHANGED <<reads, step_vars, deploy_vars>>

\* line 148: return build_set
Return ==
    /\ pc = "loop"
    /\ idx > Len(stages)
    /\ pc' = "done"
    /\ UNCHANGED <<inputs, idx, all_projects, build_set, todo, maybe_executions, last>>
    /\ UNCHANGED <<reads, step_vars, deploy_vars>>

Next == SkipStage \/ ForcedStage \/ StartMap \/ MapProject \/ EndMap \/ Return

Spec == Init /\ [][Next]_vars

(***************************** the Sbt test step ****************************)
\* Strings of the step are sequences of pieces: a piece is a blank, a
\* semicolon, a quote, a dollar sign or a word that contains none of them.
Blank == " "

RECURSIVE Join(_, _)
\* sep.join(list)
Join(list, sep) ==
    IF list = <<>> THEN <<>>
    ELSE IF Len(list) = 1 THEN list[1]
    ELSE list[1] \o sep \o Join(Tail(list), sep)

\* values of SbtConfig.sbt_command: one word, and words separated by blanks
SbtCommands ==
    {<<"sbt">>,
     <<"sbt", " ", "-v">>,
     <<"sbtn", " ", "-J-Xmx4G", " ", "-Duser.timezone=GMT">>}

SbtConfig(sbt_command, test_with_coverage) ==
    [sbt_command |-> sbt_command, test_with_coverage |-> test_with_coverage]

\* names of the project under test
StepProjects == {NameA, NameB, <<"dockertest">>}

\* _construct_sbt_command_compile
construct_sbt_command_compile(project_name) ==
    <<<<"project", " ">> \o project_name, <<"coverageOn">>, <<"test:compile">>>>

\* _construct_sbt_command_test: one string, the dollar sign of the f-string included
construct_sbt_command_test(project_name) ==
    <<<<"-Dspecs2.color=true", " ", "\"", "project", " ", "$">> \o project_name
        \o <<";", "test", ";", "coverageOff", "\"">>>>

\* _construct_sbt_command, given the list that commands_fn(step_input) returns
construct_sbt_command(commands) ==
    Append(Split(sbt_config.sbt_command, Blank), Join(commands, <<";", " ">>))

\* no call of find_build_set is in progress
FindBuildSetIdle ==
    /\ loaded_projects = {}
    /\ changes_in_branch = <<>>
    /\ stages = <<>>
    /\ build_all = FALSE
    /\ selected_stage = None
    /\ selected_projects = None
    /\ pc = "done"
    /\ idx = 1
    /\ all_projects = {}
    /\ build_set = EmptyDict
    /\ todo = {}
    /\ maybe_executions = {}
    /\ last = NoEval
    /\ reads = EmptyDict

\* execute is entered
SbtInit ==
    /\ FindBuildSetIdle
    /\ HelmIdle
    /\ UpgradeIdle
    /\ ClusterIdle
    /\ step_project \in StepProjects
    /\ sbt_config \in {SbtConfig(c, coverage) : c \in SbtCommands, coverage \in BOOLEAN}
    /\ step_pc = "start"
    /\ command_compile = <<>>
    /\ command_test = <<>>
    /\ test_run = None
    /\ step_output = None

\* line 33
ConstructCompile ==
    /\ step_pc = "start"
    /\ command_compile' =
          construct_sbt_command(construct_sbt_command_compile(step_project))
    /\ step_pc' = "compile_constructed"
    /\ UNCHANGED <<discovery_vars, deploy_vars, step_project, sbt_config, command_test,
                   test_run, step_output>>

\* line 34
ConstructTest ==
    /\ step_pc = "compile_constructed"
    /\ command_test' =
          construct_sbt_command(construct_sbt_command_test(step_project))
    /\ step_pc' = "constructed"
    /\ UNCHANGED <<discovery_vars, deploy_vars, step_project, sbt_config, command_compile,
                   test_run, step_output>>

\* line 36: the compile command is run and its Output is dropped
RunCompile ==
    /\ step_pc = "constructed"
    /\ step_pc' = "compiled"
    /\ UNCHANGED <<discovery_vars, deploy_vars, step_project, sbt_config, command_compile,
                   command_test, test_run, step_output>>

\* line 37: the test command is run; custom_check_output reports the exit code
RunTest ==
    /\ step_pc = "compiled"
    /\ \E success \in BOOLEAN : test_run' = Output(success, None)
    /\ step_pc' = "tested"
    /\ UNCHANGED <<discovery_vars, deploy_vars, step_project, sbt_config, command_compile,
                   command_test, step_output>>

\* lines 41-53: the test results become the artifact, or the step fails
ReturnOutput ==
    /\ step_pc = "tested"
    /\ IF test_run.some.success
       THEN \E is_success \in BOOLEAN :
               step_output' = Output(is_success,
                                     Some([artifact_type |-> "junit_tests"]))
       ELSE step_output' = Output(FALSE, None)
    /\ step_pc' = "returned"
    /\ UNCHANGED <<discovery_vars, deploy_vars, step_project, sbt_config, command_compile,
                   command_test, test_run>>

SbtNext == ConstructCompile \/ ConstructTest \/ RunCompile \/ RunTest \/ ReturnOutput

SbtSpec == SbtInit /\ [][SbtNext]_vars

(***************************** helm install *********************************)
\* A command is the sequence of the words of its string; names are words.
\* A call ends with an Output or with an exception.
Raised(exception) == [raised |-> exception]

IsRaised(outcome) == "raised" \in DOMAIN outcome

IsOutput(outcome) == "some" \in DOMAIN outcome

\* Output(success=..., message=...)
OutputWithMessage(success, message) == Some([success |-> success, message |-> message])

ReleaseNames == {"web", "api", "executed"}

NameSpaces == {"pr-1", "prod"}

KubeContexts == {"test-ctx", "prod-ctx"}

TargetPath == "target"

ValuesChart == "repo/chart"

\* custom_check_output(logger, command, **keywords): the function takes a logger
\* and a command and no keyword; the exit code of the process decides success,
\* and a process that cannot be started raises
custom_check_output(command, keywords) ==
    IF keywords # {}
    THEN {Raised("TypeError")}
    ELSE {OutputWithMessage(success, <<"Subprocess", "executed", "successfully">>) :
              success \in BOOLEAN}
         \cup {OutputWithMessage(FALSE, <<"Subprocess", "failed">>),
               Raised("FileNotFoundError")}

\* chart_name in message
NameIn(chart_name, message) == \E n \in 1..Len(message) : message[n] = chart_name

\* __remove_existing_chart: the commands it runs and what it ends with
remove_existing_chart(chart_name, name_space, kube_context) ==
    LET list == <<"helm", "list", "-f", <<"^", chart_name, "$">>, "-n", name_space>>
        cmd == <<"helm", "uninstall", chart_name, "-n", name_space,
                 "--kube-context", kube_context>>
    IN  UNION {
            IF IsRaised(found_chart)
            THEN {[ran |-> <<>>, result |-> found_chart]}
            ELSE IF NameIn(chart_name, found_chart.some.message)
                 THEN {[ran |-> <<list, cmd>>, result |-> uninstalled] :
                          uninstalled \in custom_check_output(cmd, {})}
                 ELSE {[ran |-> <<list>>,
                        result |-> OutputWithMessage(TRUE,
                            <<"No", "existing", "chart", chart_name, "found", "to", "delete">>)]}
            : found_chart \in custom_check_output(list, {"capture_stdout"}) }

\* a command that was handed to a subprocess ran unless the process could not be started
RanBy(command, outcome) ==
    IF IsRaised(outcome) /\ outcome.raised = "TypeError" THEN <<>> ELSE <<command>>

\* __execute_install_cmd: the commands it runs, the local removed, what it ends with
execute_install_cmd(dry_run, chart_name, name_space, kube_context, delete_existing, additional_args) ==
    LET removals == IF delete_existing
                    THEN remove_existing_chart(chart_name, name_space, kube_context)
                    ELSE {[ran |-> <<>>, result |-> None]}
        cmd == IF dry_run
               THEN <<"helm", "upgrade", "-i", chart_name, "-n", "namespace",
                      "--kube-context", kube_context>> \o additional_args
                        \o <<"--debug", "--dry-run">>
               ELSE <<"helm", "upgrade", "-i", chart_name, "-n", name_space,
                      "--kube-context", kube_context>> \o additional_args
    IN  UNION {
            IF delete_existing /\ (IsRaised(removal.result) \/ ~removal.result.some.success)
            THEN {[ran |-> removal.ran, removed |-> removal.result,
                   result |-> removal.result]}
            ELSE {[ran |-> removal.ran \o RanBy(cmd, outcome),
                   removed |-> removal.result, result |-> outcome] :
                      outcome \in custom_check_output(cmd, {})}
            : removal \in removals }

HelmCalls ==
    {[entry |-> "install", release_name |-> release_name, name_space |-> name_space,
      kube_context |-> kube_context, dry_run |-> dry_run,
      delete_existing |-> delete_existing] :
        release_name \in ReleaseNames, name_space \in NameSpaces,
        kube_context \in KubeContexts, dry_run \in BOOLEAN, delete_existing \in BOOLEAN}
    \cup
    {[entry |-> "install_with_values_yaml", release_name |-> release_name,
      name_space |-> name_space, kube_context |-> kube_context, dry_run |-> dry_run,
      delete_existing |-> FALSE] :
        release_name \in ReleaseNames, name_space \in NameSpaces,
        kube_context \in KubeContexts, dry_run \in BOOLEAN}

\* install or install_with_values_yaml is entered
HelmInit ==
    /\ FindBuildSetIdle
    /\ StepIdle
    /\ UpgradeIdle
    /\ ClusterIdle
    /\ helm_call \in {Some(call) : call \in HelmCalls}
    /\ helm_pc = "entered"
    /\ helm_ran = <<>>
    /\ helm_removed = None
    /\ helm_result = None

\* install, lines 166-171
InstallRemoveExisting ==
    /\ helm_pc = "entered"
    /\ helm_call.some.entry = "install"
    /\ helm_call.some.delete_existing
    /\ \E removal \in remove_existing_chart(helm_call.some.release_name,
                                            helm_call.some.name_space,
                                            helm_call.some.kube_context) :
          /\ helm_ran' = helm_ran \o removal.ran
          /\ helm_removed' = removal.result
          /\ IF IsRaised(removal.result)
             THEN helm_pc' = "raised" /\ helm_result' = removal.result
             ELSE IF ~removal.result.some.success
                  THEN helm_pc' = "returned" /\ helm_result' = removal.result
                  ELSE helm_pc' = "removed" /\ UNCHANGED helm_result
    /\ UNCHANGED <<discovery_vars, step_vars, upgrade_vars, cluster_vars, helm_call>>

\* install, lines 173-184: the arguments of the call are evaluated first, and
\* step_input is no name of install or of the module
InstallExecute ==
    /\ helm_call.some.entry = "install"
    /\ \/ helm_pc = "entered" /\ ~helm_call.some.delete_existing
       \/ helm_pc = "removed"
    /\ helm_pc' = "raised"
    /\ helm_result' = Raised("NameError")
    /\ UNCHANGED <<discovery_vars, step_vars, upgrade_vars, cluster_vars, helm_call,
                   helm_ran, helm_removed>>

\* install_with_values_yaml, lines 117-124: the values are written
WriteValues ==
    /\ helm_pc = "entered"
    /\ helm_call.some.entry = "install_with_values_yaml"
    /\ helm_pc' = "written"
    /\ UNCHANGED <<discovery_vars, step_vars, upgrade_vars, cluster_vars, helm_call,
                   helm_ran, helm_removed, helm_result>>

\* install_with_values_yaml, lines 122-133, with __execute_install_cmd
ExecuteInstallCmd ==
    /\ helm_pc = "written"
    /\ LET values_path_arg ==
              <<"-f", <<TargetPath, "/", "values.yaml">>, ValuesChart>>
                \o (IF helm_call.some.dry_run THEN <<"--debug", "--dry-run">> ELSE <<>>)
       IN  \E done \in execute_install_cmd(helm_call.some.dry_run,
                                           helm_call.some.release_name,
                                           helm_call.some.name_space,
                                           helm_call.some.kube_context,
                                           FALSE, values_path_arg) :
              /\ helm_ran' = helm_ran \o done.ran
              /\ helm_removed' = done.removed
              /\ helm_result' = done.result
              /\ helm_pc' = IF IsRaised(done.result) THEN "raised" ELSE "returned"
    /\ UNCHANGED <<discovery_vars, step_vars, upgrade_vars, cluster_vars, helm_call>>

HelmNext == InstallRemoveExisting \/ InstallExecute \/ WriteValues \/ ExecuteInstallCmd

HelmSpec == HelmInit /\ [][HelmNext]_vars

(***************************** upgrade_to_latest ****************************)
\* A manifest is an ordered dict: the sequence of its fields <<key, value>> in
\* their order.  A value is a string or an ordered dict.
Str(s) == [str |-> s]

Dict(fields) == [dict |-> fields]

IsDict(value) == "dict" \in DOMAIN value

Field(key, value) == <<key, value>>

VERSION_FIELD == "mpylVersion"

Keys(d) == {d[n][1] : n \in 1..Len(d)}

\* d.get(key, default)
Get(d, key, default) ==
    IF key \in Keys(d)
    THEN (CHOOSE field \in {d[n] : n \in 1..Len(d)} : field[1] = key)[2]
    ELSE default

\* del d[key]
Without(d, key) == SelectSeq(d, LAMBDA field : field[1] # key)

\* seq with e after its first n elements
InsertAt(seq, n, e) == SubSeq(seq, 1, n) \o <<e>> \o SubSeq(seq, n + 1, Len(seq))

\* d.insert(pos, key, value) of the ordered dict the YAML loader returns: a key
\* that is present is removed first, a position past the end appends
insert(d, pos, key, value) ==
    LET rest == Without(d, key)
    IN  IF pos >= Len(rest)
        THEN Append(rest, Field(key, value))
        ELSE InsertAt(rest, pos, Field(key, value))

\* d[key] = value
SetItem(d, key, value) ==
    IF key \in Keys(d)
    THEN [n \in 1..Len(d) |-> IF d[n][1] = key THEN Field(key, value) ELSE d[n]]
    ELSE Append(d, Field(key, value))

\* bool(value) of a string or a dict
TruthyValue(value) == IF IsDict(value) THEN value.dict # <<>> ELSE value.str # ""

RECURSIVE Content(_)
\* what a dict holds when the order of its fields is left aside
Content(d) ==
    [key \in Keys(d) |->
        LET value == Get(d, key, Str(""))
        IN  IF IsDict(value) THEN [dict |-> Content(value.dict)] ELSE value]

\* bool(DeepDiff(a, b, ignore_order=True))
DeepDiff(a, b) == Content(a) # Content(b)

\* Upgrader9.upgrade
Upgrader9_upgrade(previous_dict) == insert(previous_dict, 3, VERSION_FIELD, Str("1.0.9"))

\* Upgrader10.upgrade
Upgrader10_upgrade(previous_dict) ==
    LET found_deployment == Get(previous_dict, "deployment", Dict(<<>>))
    IN  IF TruthyValue(found_deployment)
             /\ ~TruthyValue(Get(found_deployment.dict, "namespace", Str("")))
        THEN SetItem(previous_dict, "deployment",
                     Dict(insert(found_deployment.dict, 0, "namespace",
                                 Get(previous_dict, "name", Str("")))))
        ELSE previous_dict

UPGRADERS ==
    <<[target_version |-> "1.0.8"], [target_version |-> "1.0.9"],
      [target_version |-> "1.0.10"], [target_version |-> "1.0.11"]>>

\* upgrader.upgrade(previous_dict); Upgrader8 and Upgrader11 return what they get
upgrade(upgrader, previous_dict) ==
    IF upgrader.target_version = "1.0.9" THEN Upgrader9_upgrade(previous_dict)
    ELSE IF upgrader.target_version = "1.0.10" THEN Upgrader10_upgrade(previous_dict)
    ELSE previous_dict

\* get_entry_upgrader_index (an index from 1)
get_entry_upgrader_index(current_version, upgraders) ==
    LET found == {n \in 1..Len(upgraders) : upgraders[n].target_version = current_version}
    IN  IF found = {} THEN None
        ELSE Some(CHOOSE n \in found : \A other \in found : n <= other)

\* __get_version
get_version(project) == Get(project, VERSION_FIELD, Str("1.0.8")).str

\* the upgrade works on the object it was given
deepcopy_same_object(objects, ref) == [heap |-> objects, ref |-> ref]

\* copy.deepcopy(object): a new object with the same content
deepcopy(objects, ref) == [heap |-> Append(objects, objects[ref]), ref |-> Len(objects) + 1]

\* manifests: two or four leading fields, with or without a deployment, with or
\* without a version field in the third place or the last
BaseFields ==
    {<<Field("name", Str("svc")), Field("description", Str("a service"))>>,
     <<Field("name", Str("svc")), Field("description", Str("a service")),
       Field("maintainer", Str("team")),
       Field("stages", Dict(<<Field("build", Str("Sbt Build"))>>))>>}

Deployments ==
    {Dict(<<>>),
     Dict(<<Field("properties", Str("env"))>>),
     Dict(<<Field("namespace", Str("ns")), Field("properties", Str("env"))>>),
     Dict(<<Field("properties", Str("env")), Field("namespace", Str(""))>>)}

Versions == {"1.0.7", "1.0.8", "1.0.9", "1.0.10", "1.0.11"}

WithDeployment(base) ==
    {base} \cup {Append(base, Field("deployment", deployment)) :
                    deployment \in Deployments}

WithVersion(manifest) ==
    {manifest} \cup {InsertAt(manifest, at, Field(VERSION_FIELD, Str(version))) :
                        version \in Versions, at \in {2, Len(manifest)}}

Manifests ==
    UNION {WithVersion(manifest) :
              manifest \in UNION {WithDeployment(base) : base \in BaseFields}}

\* upgrade_to_latest is entered with a manifest
UpgradeInit ==
    /\ FindBuildSetIdle
    /\ StepIdle
    /\ HelmIdle
    /\ ClusterIdle
    /\ \E manifest \in Manifests :
          /\ heap = <<manifest>>
          /\ passed = <<manifest>>
    /\ to_upgrade = 1
    /\ upgraded = 0
    /\ upgrade_i = 1
    /\ upgrade_pc = "entered"
    /\ returned = <<>>

\* lines 94-99
FindEntry ==
    /\ upgrade_pc = "entered"
    /\ LET versie == get_version(heap[to_upgrade])
           upgrade_index == get_entry_upgrader_index(versie, UPGRADERS)
       IN  IF IsNone(upgrade_index)
           THEN /\ returned' = Append(returned, to_upgrade)
                /\ upgrade_pc' = "returned"
                /\ UNCHANGED <<upgraded, upgrade_i>>
           ELSE /\ upgraded' = to_upgrade
                /\ upgrade_i' = upgrade_index.some
                /\ upgrade_pc' = "loop"
                /\ UNCHANGED returned
    /\ UNCHANGED <<discovery_vars, step_vars, helm_vars, cluster_vars, heap,
                   to_upgrade, passed>>

\* lines 100-105: one pass of the loop
UpgradeStep ==
    /\ upgrade_pc = "loop"
    /\ upgrade_i <= Len(UPGRADERS)
    /\ LET upgrader == UPGRADERS[upgrade_i]
           copied == deepcopy(heap, upgraded)
           after == [copied.heap EXCEPT
                        ![copied.ref] = upgrade(upgrader, copied.heap[copied.ref])]
           diff == DeepDiff(after[copied.ref], after[to_upgrade])
       IN  /\ upgraded' = copied.ref
           /\ heap' = IF diff
                      THEN [after EXCEPT ![copied.ref] =
                               SetItem(after[copied.ref], VERSION_FIELD,
                                       Str(upgrader.target_version))]
                      ELSE after
    /\ upgrade_i' = upgrade_i + 1
    /\ UNCHANGED <<discovery_vars, step_vars, helm_vars, cluster_vars, to_upgrade,
                   upgrade_pc, passed, returned>>

\* line 106
ReturnUpgraded ==
    /\ upgrade_pc = "loop"
    /\ upgrade_i > Len(UPGRADERS)
    /\ returned' = Append(returned, upgraded)
    /\ upgrade_pc' = "returned"
    /\ UNCHANGED <<discovery_vars, step_vars, helm_vars, cluster_vars, heap,
                   to_upgrade, upgraded, upgrade_i, passed>>

\* upgrade_to_latest is applied to its own result
UpgradeAgain ==
    /\ upgrade_pc = "returned"
    /\ Len(returned) = 1
    /\ to_upgrade' = returned[1]
    /\ passed' = Append(passed, heap[returned[1]])
    /\ upgrade_pc' = "entered"
    /\ UNCHANGED <<discovery_vars, step_vars, helm_vars, cluster_vars, heap,
                   upgraded, upgrade_i, returned>>

UpgradeNext == FindEntry \/ UpgradeStep \/ ReturnUpgraded \/ UpgradeAgain

UpgradeSpec == UpgradeInit /\ [][UpgradeNext]_vars

(***************************** cluster lookup *******************************)
\* longest list of clusters in the configuration
MaxClusters == 2

Targets == {"PullRequest", "Production"}

ClusterNames == {"k8s-test", "k8s-prod", "k8s-other"}

\* ClusterConfig.from_config: two of the clusters carry the same name
ClusterConfig(name, context) == [name |-> name, context |-> context]

ClusterConfigs ==
    {ClusterConfig("k8s-test", "test-1"), ClusterConfig("k8s-test", "test-2"),
     ClusterConfig("k8s-prod", "prod-1")}

RECURSIVE ListsOf(_, _)
\* the lists of at most n elements of a set
ListsOf(elements, n) ==
    IF n = 0 THEN {<<>>}
    ELSE LET shorter == ListsOf(elements, n - 1)
         IN  shorter \cup {Append(list, e) : list \in shorter, e \in elements}

\* TargetProperty: a value for each target, None where none is given
TargetProperties(values) == [Targets -> values]

\* TargetProperty.get_value
get_value(property, of_target) == property[of_target]

\* the indices of the clusters of the list with the name
Named(clusters, name) ==
    {n \in 1..Len(clusters) : ~IsNone(name) /\ clusters[n].name = name.some}

\* next(cluster for cluster in clusters if cluster.name == name): the first one
First(clusters, name) ==
    clusters[CHOOSE n \in Named(clusters, name) : \A other \in Named(clusters, name) : n <= other]

\* next(generator) without default: the first match, or nothing and StopIteration
next(clusters, name) ==
    IF Named(clusters, name) = {} THEN None ELSE Some(Some(First(clusters, name)))

\* get_cluster_config_for_project is entered
ClusterInit ==
    /\ FindBuildSetIdle
    /\ StepIdle
    /\ HelmIdle
    /\ UpgradeIdle
    /\ kubernetes_config \in
          {Some([clusters |-> clusters, defaultCluster |-> default]) :
              clusters \in ListsOf(ClusterConfigs, MaxClusters),
              default \in TargetProperties({Some(name) : name \in ClusterNames})}
    /\ target \in Targets
    /\ deployment_cluster \in
          {None} \cup {Some(property) :
                          property \in TargetProperties(
                              {None} \cup {Some(name) : name \in ClusterNames})}
    /\ cluster_override = None
    /\ cluster_pc = "entered"
    /\ default_cluster = None
    /\ cluster_result = None

\* lines 32-36
ReadOverride ==
    /\ cluster_pc = "entered"
    /\ cluster_override' = IF IsNone(deployment_cluster) THEN None
                           ELSE get_value(deployment_cluster.some, target)
    /\ cluster_pc' = "override_read"
    /\ UNCHANGED <<discovery_vars, step_vars, helm_vars, upgrade_vars, kubernetes_config,
                   target, deployment_cluster, default_cluster, cluster_result>>

\* lines 38-51
FindDefault ==
    /\ cluster_pc = "override_read"
    /\ LET clusters == kubernetes_config.some.clusters
           default_cluster_name == get_value(kubernetes_config.some.defaultCluster, target)
           found == next(clusters, default_cluster_name)
       IN  IF IsNone(found)
           THEN /\ cluster_result' = Raised("StopIteration")
                /\ cluster_pc' = "raised"
                /\ UNCHANGED default_cluster
           ELSE /\ default_cluster' = found.some
                /\ cluster_pc' = "default_found"
                /\ UNCHANGED cluster_result
    /\ UNCHANGED <<discovery_vars, step_vars, helm_vars, upgrade_vars, kubernetes_config,
                   target, deployment_cluster, cluster_override>>

\* lines 53-63: an instance of ClusterConfig is truthy, None is not
ReturnCluster ==
    /\ cluster_pc = "default_found"
    /\ IF IsNone(default_cluster)
       THEN /\ cluster_result' = Raised("ValueError")
            /\ cluster_pc' = "raised"
       ELSE /\ cluster_result' =
                  IF Named(kubernetes_config.some.clusters, cluster_override) = {}
                  THEN default_cluster
                  ELSE Some(First(kubernetes_config.some.clusters, cluster_override))
            /\ cluster_pc' = "returned"
    /\ UNCHANGED <<discovery_vars, step_vars, helm_vars, upgrade_vars, kubernetes_config,
                   target, deployment_cluster, cluster_override, default_cluster>>

ClusterNext == ReadOverride \/ FindDefault \/ ReturnCluster

ClusterSpec == ClusterInit /\ [][ClusterNext]_vars

(***************************** notions of the claims ************************)
\* the files touched by the revisions of the history
HistoryFiles ==
    UNION {changes_in_branch[j].files_touched : j \in DOMAIN changes_in_branch}

\* the files touched by the revisions whose ordinal is greater than n
FilesNewerThan(n) ==
    UNION {changes_in_branch[j].files_touched :
              j \in {k \in DOMAIN changes_in_branch : changes_in_branch[k].ord > n}}

\* the project declares participation in the stage: a configuration is present
Participates(project, stage) == ~IsNone(project.stages[stage])

\* the Output succeeded with an artifact built at revision_hash
BuiltAt(output, revision_hash) ==
    /\ ~IsNone(output)
    /\ output.some.success
    /\ ~IsNone(output.some.produced_artifact)
    /\ output.some.produced_artifact.some.revision = revision_hash

\* the Output is missing, failed, artifact-less or built at no revision of the history
Untrusted(output) ==
    \A j \in DOMAIN changes_in_branch : ~BuiltAt(output, changes_in_branch[j].hash)

\* the dependency paths the project declares for the stage
DeclaredDependencies(project, stage) ==
    IF IsNone(project.dependencies) THEN {} ELSE project.dependencies.some[stage]

\* the rule of the invalidation predicate
RuleInvalidates(project, stage, path) ==
    \/ startswith(path, project.root_path)
    \/ \E d \in DeclaredDependencies(project, stage) : startswith(path, d)

\* _to_project_execution has been called and read the Output
Evaluated == last.called /\ last.read

\* the set of last.stage is in the BuildSet: its map has ended
StageSetBuilt == last.called /\ pc # "map"

\* the executions of the project in the set of the stage
ExecutionsOf(project, stage) == {e \in build_set[stage] : e.project = project}

(***************************** C1 *******************************************)
\* C1: for a non-deploy stage and an Output that succeeded with an artifact whose
\* revision is the hash of a revision r of the history, the relevant changes are
\* exactly the files touched by the revisions with an ordinal greater than r's.
C1_StopCondition ==
    (Evaluated /\ last.stage # DEPLOY_STAGE_NAME) =>
        \A j \in DOMAIN changes_in_branch :
            BuiltAt(last.output, changes_in_branch[j].hash) =>
                last.relevant = FilesNewerThan(changes_in_branch[j].ord)

\* a walk that stopped at a revision with newer and older ones, leaving its files out
C1_Witness ==
    /\ Evaluated
    /\ last.stage # DEPLOY_STAGE_NAME
    /\ \E j, newer, older \in DOMAIN changes_in_branch :
        /\ BuiltAt(last.output, changes_in_branch[j].hash)
        /\ changes_in_branch[newer].ord > changes_in_branch[j].ord
        /\ changes_in_branch[older].ord < changes_in_branch[j].ord
        /\ last.relevant = changes_in_branch[newer].files_touched
        /\ changes_in_branch[j].files_touched \cap last.relevant = {}
        /\ changes_in_branch[older].files_touched \cap last.relevant = {}

(***************************** C2 *******************************************)
\* C2: for the deploy stage the relevant changes are the files touched by every
\* revision of the history, whatever Output is recorded.
C2_DeployExhaustive ==
    (Evaluated /\ last.stage = DEPLOY_STAGE_NAME) => last.relevant = HistoryFiles

\* a deploy walk whose Output was built at the newest revision
C2_Witness ==
    /\ Evaluated
    /\ last.stage = DEPLOY_STAGE_NAME
    /\ Len(changes_in_branch) >= 2
    /\ \E j \in DOMAIN changes_in_branch :
        /\ BuiltAt(last.output, changes_in_branch[j].hash)
        /\ \A k \in DOMAIN changes_in_branch :
                changes_in_branch[k].ord <= changes_in_branch[j].ord
    /\ last.relevant = Files

(***************************** C3 *******************************************)
\* C3: in incremental mode a participating project whose Output is missing, failed,
\* artifact-less or built at no revision of the history, and whose root is touched
\* by some revision, is in the stage's set of the BuildSet.
C3_NoFalseNegative ==
    (/\ StageSetBuilt
     /\ Participates(last.project, last.stage)
     /\ Untrusted(last.output)
     /\ \E f \in HistoryFiles : startswith(f, last.project.root_path)) =>
        ExecutionsOf(last.project, last.stage) # {}

\* a failed Output whose artifact was built at the newest revision, root touched
C3_Witness ==
    /\ StageSetBuilt
    /\ last.stage = BUILD_STAGE_NAME
    /\ Participates(last.project, last.stage)
    /\ ~IsNone(last.output)
    /\ ~last.output.some.success
    /\ \E j \in DOMAIN changes_in_branch :
        /\ ~IsNone(last.output.some.produced_artifact)
        /\ last.output.some.produced_artifact.some.revision = changes_in_branch[j].hash
        /\ \A k \in DOMAIN changes_in_branch :
                changes_in_branch[k].ord <= changes_in_branch[j].ord
    /\ \E f \in HistoryFiles : startswith(f, last.project.root_path)
    /\ ExecutionsOf(last.project, last.stage) # {}

(***************************** C4 *******************************************)
\* the relevant changes that satisfy the invalidation predicate for the last project
InvalidatingChanges ==
    {c \in last.relevant : is_invalidated(last.project, last.stage, c)}

\* C4: in incremental mode a project is in a stage's set if and only if it
\* participates in the stage and some relevant change satisfies the invalidation
\* predicate; it has one execution, whose changed_files are exactly the relevant
\* changes that satisfy the predicate.
C4_MinimalComplete ==
    StageSetBuilt =>
        /\ ExecutionsOf(last.project, last.stage) # {} <=>
                (Participates(last.project, last.stage) /\ InvalidatingChanges # {})
        /\ \A e \in ExecutionsOf(last.project, last.stage) :
                e.changed_files = InvalidatingChanges
        /\ \A e \in build_set[last.stage] :
                /\ e.project \in loaded_projects
                /\ Participates(e.project, last.stage)
                /\ \A c \in e.changed_files : is_invalidated(e.project, last.stage, c)

\* two projects with no Output, a change under a dependency of one of them only:
\* that project is scheduled with the dependency file, the other one is absent
C4_Witness ==
    /\ StageSetBuilt
    /\ pc = "done"
    /\ last.stage = BUILD_STAGE_NAME
    /\ IsNone(last.output)
    /\ HistoryFiles = {FileSU}
    /\ \E p \in loaded_projects :
        /\ Participates(p, BUILD_STAGE_NAME)
        /\ ExecutionsOf(p, BUILD_STAGE_NAME) = {}
    /\ \E p \in loaded_projects :
        ExecutionsOf(p, BUILD_STAGE_NAME) = {ProjectExecution(p, {FileSU})}

\* a project scheduled with fewer files than the relevant changes hold
C4_WitnessFiltered ==
    /\ StageSetBuilt
    /\ \E e \in ExecutionsOf(last.project, last.stage) :
        /\ e.changed_files # last.relevant
        /\ e.changed_files # {}

(***************************** C5 *******************************************)
\* C5: is_invalidated is true exactly when the path is prefixed by the project's
\* root_path or by an entry of the project's dependencies for that stage; a project
\* with no dependency table has no entry, and entries of other stages do not count.
C5_InvalidationRule ==
    last.called =>
        /\ \A path \in Files :
                is_invalidated(last.project, last.stage, path) <=>
                    RuleInvalidates(last.project, last.stage, path)
        /\ last.read =>
                \A path \in last.relevant :
                    (~IsNone(last.execution) /\ path \in last.execution.some.changed_files)
                        <=> RuleInvalidates(last.project, last.stage, path)

\* a project evaluated for a stage while a touched file lies only under a
\* dependency it declares for another stage
C5_Witness ==
    /\ Evaluated
    /\ ~IsNone(last.project.dependencies)
    /\ \E other \in StageNames \ {last.stage} :
        \E d \in DeclaredDependencies(last.project, other) :
            \E path \in last.relevant :
                /\ startswith(path, d)
                /\ ~startswith(path, last.project.root_path)
                /\ IsNone(last.execution)

(***************************** C6 *******************************************)
\* C6: in incremental mode a participating project with no trustworthy Output that
\* declares a dependency path for the stage is scheduled whenever a revision
\* touches a file under that path, and its changed_files contain that file.
C6_DependencyPropagation ==
    (/\ StageSetBuilt
     /\ Participates(last.project, last.stage)
     /\ Untrusted(last.output)) =>
        \A d \in DeclaredDependencies(last.project, last.stage) :
            \A f \in HistoryFiles :
                startswith(f, d) =>
                    /\ ExecutionsOf(last.project, last.stage) # {}
                    /\ \A e \in ExecutionsOf(last.project, last.stage) :
                            f \in e.changed_files

\* scheduled by a dependency file while no touched file lies under the root
C6_Witness ==
    /\ StageSetBuilt
    /\ Participates(last.project, last.stage)
    /\ Untrusted(last.output)
    /\ HistoryFiles # {}
    /\ \A f \in HistoryFiles : ~startswith(f, last.project.root_path)
    /\ \E d \in DeclaredDependencies(last.project, last.stage) :
        \E f \in HistoryFiles :
            /\ startswith(f, d)
            /\ \E e \in ExecutionsOf(last.project, last.stage) : f \in e.changed_files

(***************************** C7 *******************************************)
\* C7: in every mode an execution of project p is in the set of stage s only if
\* p has a configuration for s.
C7_Participation ==
    \A s \in DOMAIN build_set :
        \A e \in build_set[s] : Participates(e.project, s)

\* incremental mode: a project without the stage whose root is touched is left
\* out of a set that holds another project
C7_Witness ==
    /\ pc = "done"
    /\ ~Forced
    /\ \E s \in DOMAIN build_set :
        /\ build_set[s] # {}
        /\ \E p \in loaded_projects :
            /\ ~Participates(p, s)
            /\ \E f \in HistoryFiles : startswith(f, p.root_path)
            /\ ExecutionsOf(p, s) = {}

\* forced mode: a project without the stage is left out of a set that holds another
C7_WitnessForced ==
    /\ pc = "done"
    /\ Forced
    /\ \E s \in DOMAIN build_set :
        /\ build_set[s] # {}
        /\ \E p \in all_projects : ~Participates(p, s) /\ ExecutionsOf(p, s) = {}

(***************************** C8 *******************************************)
\* C8: every execution produced in incremental mode has non-empty changed_files;
\* every execution produced in forced or filtered mode has empty changed_files.
C8_EmptyIsForcedMarker ==
    \A s \in DOMAIN build_set :
        \A e \in build_set[s] : (e.changed_files = {}) <=> Forced

\* an incremental call that returned an execution
C8_Witness ==
    /\ pc = "done"
    /\ ~Forced
    /\ \E s \in DOMAIN build_set : build_set[s] # {}

\* a forced call that returned an execution although the history is not empty
C8_WitnessForced ==
    /\ pc = "done"
    /\ Forced
    /\ HistoryFiles # {}
    /\ \E s \in DOMAIN build_set : build_set[s] # {}

(***************************** C9 *******************************************)
\* C9: every path in the changed_files of an execution of the BuildSet is touched
\* by some revision of the history.
C9_NoFabricatedPaths ==
    \A s \in DOMAIN build_set :
        \A e \in build_set[s] : e.changed_files \subseteq HistoryFiles

\* an execution whose changed_files are some, not all, of the touched files
C9_Witness ==
    /\ pc = "done"
    /\ \E s \in DOMAIN build_set :
        \E e \in build_set[s] :
            /\ e.changed_files # {}
            /\ e.changed_files # HistoryFiles

(***************************** C10 ******************************************)
\* build_all is set and no project filter is given
ForcedFullBuild == build_all /\ ~TruthyChars(selected_projects)

C10_ForcedSchedulesTruthy ==
    ForcedFullBuild =>
        \A s \in DOMAIN build_set :
            build_set[s] =
                {ProjectExecution(p, {}) :
                    p \in {q \in loaded_projects : Truthy(q.stages[s])}}

\* a forced full build over an empty history that scheduled a project
C10_Reached ==
    /\ pc = "done"
    /\ ForcedFullBuild
    /\ changes_in_branch = <<>>
    /\ \E s \in DOMAIN build_set : build_set[s] # {}

(******************************** C11 ***************************************)
\* a project filter is given: the name list is truthy
Filtered == TruthyChars(selected_projects)

C11_FilterSchedulesTruthy ==
    Filtered =>
        \A s \in DOMAIN build_set :
            build_set[s] =
                {ProjectExecution(p, {}) :
                    p \in {q \in loaded_projects :
                              q.name \in projects_list /\ Truthy(q.stages[s])}}

\* a filtered call without build_all that scheduled a named project and left
\* out an unnamed one that participates
C11_Reached ==
    /\ pc = "done"
    /\ Filtered
    /\ ~build_all
    /\ \E s \in DOMAIN build_set :
          /\ build_set[s] # {}
          /\ \E q \in loaded_projects :
                q.name \notin projects_list /\ Truthy(q.stages[s])

(******************************** C12 ***************************************)
\* the names of the loaded projects
LoadedNames == {p.name : p \in loaded_projects}

\* the project filter holds a name that no loaded project has
UnknownNamed == Filtered /\ \E n \in projects_list : n \notin LoadedNames

\* the stages the single-stage filter lets through
EvaluatedStages ==
    {stages[j] : j \in {k \in DOMAIN stages :
                           ~(Truthy(selected_stage) /\ selected_stage.some # stages[k])}}

\* the call has returned or can take its next step (a project left to map can
\* always be mapped: reading an Output yields an Output or None)
Proceeds ==
    \/ pc = "done"
    \/ pc = "map" /\ todo # {}
    \/ ENABLED (SkipStage \/ ForcedStage \/ StartMap \/ EndMap \/ Return)

\* C12 as stated: a call whose project filter holds a name absent from the
\* loaded projects signals ConfigurationInvalid, so it does not return a mapping.
C12_UnknownNameSignals == UnknownNamed => pc # "done"

\* C12: a call whose project filter holds a name absent from the loaded projects
\* signals nothing: it runs to its return, the mapping has one key per evaluated
\* stage, and the unknown name selects no project (each set holds the loaded
\* projects named in the list whose stage configuration is truthy, with empty
\* changed_files; it is empty when no listed name is loaded).
C12_UnknownNameIgnored ==
    UnknownNamed =>
        /\ Proceeds
        /\ pc = "done" => DOMAIN build_set = EvaluatedStages
        /\ \A s \in DOMAIN build_set :
              /\ build_set[s] =
                    {ProjectExecution(p, {}) :
                        p \in {q \in loaded_projects :
                                  q.name \in projects_list /\ Truthy(q.stages[s])}}
              /\ projects_list \cap LoadedNames = {} => build_set[s] = {}

\* a call naming only an unknown project returned empty sets although a loaded
\* project has a step for the stage
C12_Witness ==
    /\ pc = "done"
    /\ UnknownNamed
    /\ projects_list \cap LoadedNames = {}
    /\ \E s \in DOMAIN build_set :
          /\ build_set[s] = {}
          /\ \E q \in loaded_projects : Truthy(q.stages[s])

\* a call naming a loaded and an unknown project returned the loaded one
C12_WitnessMixed ==
    /\ pc = "done"
    /\ UnknownNamed
    /\ \E s \in DOMAIN build_set : build_set[s] # {}

(******************************** C13 ***************************************)
\* the stage names of the stage list
ListedStages == {stages[j] : j \in DOMAIN stages}

\* C13: when selected_stage names a stage of the list, the mapping never has a
\* key other than that stage, and the returned mapping has exactly that key, in
\* the incremental, forced and filtered modes alike.
C13_SingleStage ==
    (Truthy(selected_stage) /\ selected_stage.some \in ListedStages) =>
        /\ DOMAIN build_set \subseteq {selected_stage.some}
        /\ pc = "done" => DOMAIN build_set = {selected_stage.some}

\* an incremental call over two stages returned the selected stage only
C13_Witness ==
    /\ pc = "done"
    /\ Len(stages) = 2
    /\ Truthy(selected_stage)
    /\ ~Forced
    /\ DOMAIN build_set = {selected_stage.some}
    /\ build_set[selected_stage.some] # {}

\* a forced call over two stages returned the selected stage only
C13_WitnessForced ==
    /\ pc = "done"
    /\ Len(stages) = 2
    /\ Truthy(selected_stage)
    /\ Forced
    /\ DOMAIN build_set = {selected_stage.some}
    /\ build_set[selected_stage.some] # {}

(******************************** C14 ***************************************)
\* C14: find_build_set always runs to its return: a call that has not returned
\* can take its next step, the returned mapping has one key per evaluated
\* stage, and a selected_stage that names no stage of the list yields the
\* empty mapping.
C14_AlwaysReturns ==
    /\ Proceeds
    /\ pc = "done" => DOMAIN build_set = EvaluatedStages
    /\ (Truthy(selected_stage) /\ selected_stage.some \notin ListedStages) =>
            build_set = EmptyDict

\* a call that selects a stage not in the list returned the empty mapping
\* although projects are loaded
C14_Witness ==
    /\ pc = "done"
    /\ Truthy(selected_stage)
    /\ selected_stage.some \notin ListedStages
    /\ loaded_projects # {}
    /\ build_set = EmptyDict

(******************************** C16 ***************************************)
\* the history with the neighbours at positions n and n + 1 exchanged
Exchanged(n) ==
    [j \in DOMAIN changes_in_branch |->
        IF j = n THEN changes_in_branch[n + 1]
        ELSE IF j = n + 1 THEN changes_in_branch[n]
        ELSE changes_in_branch[j]]

\* the order in which the walk visits the history
VisitOrder == Reversed(SortedByOrd(changes_in_branch))

\* C16: the walk visits the revisions from the highest ordinal to the lowest,
\* and the relevant set computed from a history, which decides the execution,
\* is the one computed from the history with any two neighbours of the list
\* exchanged.
\* Every permutation is a product of such exchanges and every list order is a
\* history of the model, so the result is the same for every permutation of
\* the list: only the ordinals decide.
C16_OrderByOrdinal ==
    Evaluated =>
        /\ \A j, k \in DOMAIN VisitOrder :
              j < k => VisitOrder[j].ord > VisitOrder[k].ord
        /\ \A n \in 1..(Len(changes_in_branch) - 1) :
              to_relevant_changes(last.output, last.stage, Exchanged(n))
                  = last.relevant

\* a walk over a history supplied neither in ascending nor in descending
\* ordinal order that stopped at the middle revision
C16_Witness ==
    /\ Evaluated
    /\ last.stage # DEPLOY_STAGE_NAME
    /\ Len(changes_in_branch) = 3
    /\ changes_in_branch[1].ord = 2
    /\ changes_in_branch[2].ord = 3
    /\ changes_in_branch[3].ord = 1
    /\ BuiltAt(last.output, changes_in_branch[1].hash)
    /\ last.relevant = changes_in_branch[2].files_touched
    /\ last.relevant # HistoryFiles

(******************************** C17 ***************************************)
\* the executions that the forced and filtered modes compute for a stage from
\* the caller's projects alone
ForcedSetOf(stage) ==
    {ProjectExecution(p, {}) :
        p \in for_stage(IF Filtered THEN FilterByName(loaded_projects)
                        ELSE loaded_projects, stage)}

\* the execution, if any, that the incremental mode computes for a project and
\* a stage from the history and the Output read for them alone
IncrementalSetOf(project, stage, output) ==
    IF NotInStage(project, stage) THEN {}
    ELSE LET execution == to_project_execution(project, stage,
                                               changes_in_branch, output)
         IN  IF IsNone(execution) THEN {} ELSE {execution.some}

\* the sets already in the mapping are kept as they are
SetsKept ==
    \A s \in DOMAIN build_set :
        s \in DOMAIN build_set' /\ build_set'[s] = build_set[s]

\* the set of every stage is the one computed for the stage alone
SetsStandAlone ==
    /\ Forced => \A s \in DOMAIN build_set : build_set[s] = ForcedSetOf(s)
    /\ (~Forced /\ StageSetBuilt) =>
          /\ ExecutionsOf(last.project, last.stage)
                = IncrementalSetOf(last.project, last.stage, last.output)
          /\ \A e \in build_set[last.stage] : e.project \in loaded_projects

\* C17: the set of a stage is computed from the caller's projects, the history
\* and the Outputs of that stage alone, whatever stages were processed before it
\* and in whatever order (the filter applied while an earlier stage was
\* processed does not change it), and processing a later stage leaves the sets
\* of the earlier stages as they are.
C17_StageIndependence == [](SetsStandAlone) /\ [][SetsKept]_vars

\* a filtered call over two stages: the filter narrowed the projects at the
\* first stage, and the second stage has the named projects although an
\* unnamed one has a step for it
C17_Witness ==
    /\ pc = "done"
    /\ Filtered
    /\ Len(stages) = 2
    /\ all_projects # loaded_projects
    /\ DOMAIN build_set = ListedStages
    /\ \A s \in DOMAIN build_set : build_set[s] # {}
    /\ \E q \in loaded_projects \ all_projects : Truthy(q.stages[stages[2]])

\* a forced call over two stages with a different non-empty set for each
C17_WitnessForced ==
    /\ pc = "done"
    /\ Forced
    /\ Len(stages) = 2
    /\ DOMAIN build_set = ListedStages
    /\ \A s \in DOMAIN build_set : build_set[s] # {}
    /\ build_set[stages[1]] # build_set[stages[2]]

\* an incremental call over two stages with a different non-empty set for each
C17_WitnessIncremental ==
    /\ pc = "done"
    /\ ~Forced
    /\ Len(stages) = 2
    /\ DOMAIN build_set = ListedStages
    /\ \A s \in DOMAIN build_set : build_set[s] # {}
    /\ build_set[stages[1]] # build_set[stages[2]]

(******************************** C18 ***************************************)
\* C18: no step of find_build_set writes to what the caller passed: the project
\* set, the history list (its revisions and their list order) and the other
\* arguments are after every step what they were before it.
C18_NoWrites ==
    [][/\ loaded_projects' = loaded_projects
       /\ changes_in_branch' = changes_in_branch
       /\ UNCHANGED <<stages, build_all, selected_stage, selected_projects>>]_vars

\* the walk has visited, in ordinal order, a history whose list is not in
\* ordinal order
C18_Witness ==
    /\ Evaluated
    /\ Len(changes_in_branch) >= 2
    /\ changes_in_branch # SortedByOrd(changes_in_branch)
    /\ last.relevant # {}

\* the call has returned and its filter narrowed all_projects, not the
\* caller's set
C18_WitnessFiltered ==
    /\ pc = "done"
    /\ all_projects # loaded_projects
    /\ build_set # EmptyDict

(******************************** C19 ***************************************)
\* the revision hashes an Output can be compared with
CandidateHashes ==
    {ForeignHash} \cup {changes_in_branch[j].hash : j \in DOMAIN changes_in_branch}

\* C19: for the Output that was read and every candidate revision hash,
\* output_invalidated is false exactly when the Output is recorded, succeeded
\* and has an artifact whose revision is the candidate hash; in every other
\* case the Output is stale.
C19_StalenessRule ==
    Evaluated =>
        \A h \in CandidateHashes :
            output_invalidated(last.output, h) = ~BuiltAt(last.output, h)

\* the Output read is valid for one revision of the history and stale for
\* another, and the walk stopped between them
C19_Witness ==
    /\ Evaluated
    /\ last.stage # DEPLOY_STAGE_NAME
    /\ \E h, g \in CandidateHashes :
          /\ h # g
          /\ ~output_invalidated(last.output, h)
          /\ output_invalidated(last.output, g)
    /\ last.relevant # {}
    /\ last.relevant # HistoryFiles

\* the Output read succeeded without an artifact: stale for every candidate
C19_WitnessNoArtifact ==
    /\ Evaluated
    /\ ~IsNone(last.output)
    /\ last.output.some.success
    /\ IsNone(last.output.some.produced_artifact)
    /\ changes_in_branch # <<>>
    /\ \A h \in CandidateHashes : output_invalidated(last.output, h)

(******************************** C20 ***************************************)
\* both commands of the step have been constructed
Constructed == step_pc \in {"constructed", "compiled", "tested", "returned"}

\* the command line: the configured sbt command, then the project selection
\* and the task joined by "; ", the task between coverageOn and coverageOff
\* when coverage is enabled
ExpectedCommandLine(task) ==
    sbt_config.sbt_command \o <<Blank>> \o
    Join(<<<<"project", " ">> \o step_project>>
            \o (IF sbt_config.test_with_coverage
                THEN <<<<"coverageOn">>, <<task>>, <<"coverageOff">>>>
                ELSE <<<<task>>>>),
         <<";", " ">>)

\* C20: the compile command and the test command, joined by blanks, are the
\* configured sbt command followed by the project selection and the task
\* (test:compile, test) joined by "; "; the task stands between coverageOn
\* and coverageOff when coverage is enabled, and alone when it is disabled.
C20_SbtCommands ==
    Constructed =>
        /\ Join(command_compile, <<Blank>>) = ExpectedCommandLine("test:compile")
        /\ Join(command_test, <<Blank>>) = ExpectedCommandLine("test")

\* what the code does, whatever the coverage setting: the compile command ends
\* with coverageOn and test:compile, and the test command is one quoted string
C20_CommandsOfTheCode ==
    Constructed =>
        /\ Join(command_compile, <<Blank>>) =
              sbt_config.sbt_command
                \o <<" ", "project", " ">> \o step_project
                \o <<";", " ", "coverageOn", ";", " ", "test:compile">>
        /\ Join(command_test, <<Blank>>) =
              sbt_config.sbt_command
                \o <<" ", "-Dspecs2.color=true", " ", "\"", "project", " ", "$">>
                \o step_project \o <<";", "test", ";", "coverageOff", "\"">>
        /\ Len(command_compile) = Len(Split(sbt_config.sbt_command, Blank)) + 1

\* the step has run both commands of a project with coverage enabled
C20_Reached ==
    /\ step_pc = "returned"
    /\ sbt_config.test_with_coverage
    /\ Len(sbt_config.sbt_command) > 1
    /\ step_output.some.success

(******************************** C21 ***************************************)
\* the revisions of the history
Revisions == {changes_in_branch[j] : j \in DOMAIN changes_in_branch}

\* the files of the revisions that the walk reaches when every revision is
\* compared with the one Output: those with no valid revision at or above them
FilesReachedAgainst(output) ==
    UNION {r.files_touched :
              r \in {q \in Revisions :
                        \A n \in Revisions :
                            n.ord >= q.ord => output_invalidated(output, n.hash)}}

\* C21: the Output of a project and stage is read at most once, and exactly
\* once, by the time the stage's set is built, for every project that
\* participates in a stage evaluated incrementally; the whole walk compares
\* its revisions with that one Output; the forced and filtered modes read no
\* Output, and no Output is read for a project that does not participate.
C21_SingleSnapshot ==
    /\ \A k \in DOMAIN reads :
          /\ reads[k] = 1
          /\ \E p \in loaded_projects : p.name = k[1] /\ Participates(p, k[2])
    /\ Forced => reads = EmptyDict
    /\ (~Forced /\ StageSetBuilt) =>
          \A p \in loaded_projects :
              <<p.name, last.stage>> \in DOMAIN reads <=> Participates(p, last.stage)
    /\ (Evaluated /\ last.stage # DEPLOY_STAGE_NAME) =>
          last.relevant = FilesReachedAgainst(last.output)

\* a walk over three revisions after one read, which stopped inside the history
C21_Witness ==
    /\ Evaluated
    /\ Len(changes_in_branch) = 3
    /\ reads[<<last.project.name, last.stage>>] = 1
    /\ last.relevant # {}
    /\ last.relevant # HistoryFiles

\* an incremental stage is built: one project was read, the other, which does
\* not participate, was not
C21_WitnessNotRead ==
    /\ StageSetBuilt
    /\ ~Forced
    /\ \E p, q \in loaded_projects :
          /\ <<p.name, last.stage>> \in DOMAIN reads
          /\ <<q.name, last.stage>> \notin DOMAIN reads

\* a forced call returned a scheduled project without reading an Output
C21_WitnessForced ==
    /\ pc = "done"
    /\ Forced
    /\ reads = EmptyDict
    /\ \E s \in DOMAIN build_set : build_set[s] # {}

(******************************** C22 ***************************************)
\* the projects that a call with build_all and no filter schedules for the
\* stage (lines 136-137)
ScheduledWhenForced(stage) == for_stage(loaded_projects, stage)

C22_CoversTruthy ==
    (~Forced /\ StageSetBuilt) =>
        \A e \in build_set[last.stage] :
            /\ Participates(e.project, last.stage)
            /\ Truthy(e.project.stages[last.stage]) =>
                  e.project \in ScheduledWhenForced(last.stage)

\* the incremental mode scheduled a project with a step for the stage
C22_Reached ==
    /\ ~Forced
    /\ StageSetBuilt
    /\ \E e \in build_set[last.stage] : Truthy(e.project.stages[last.stage])

(******************************** C23 ***************************************)
RECURSIVE Kept(_, _)
\* the revisions of the history at the positions of keep, in their list order
Kept(history, keep) ==
    IF history = <<>> THEN <<>>
    ELSE LET n == Len(history)
             front == Kept(SubSeq(history, 1, n - 1), keep)
         IN  IF n \in keep THEN Append(front, history[n]) ELSE front

\* the histories from which the current one is obtained by adding revisions
SmallerHistories ==
    {Kept(changes_in_branch, keep) : keep \in SUBSET (DOMAIN changes_in_branch)}

\* _to_project_execution has just returned for a project with the stage
JustEvaluated == Evaluated /\ pc = "map"

\* the Outputs tried for a smaller history: none, the one read for the current
\* history, and a successful one built at each of its revisions (the Outputs
\* that stop the walk of another stage at once)
OutputsTried(smaller) ==
    {None, last.output} \cup
    {Output(TRUE, Artifact(smaller[j].hash)) : j \in DOMAIN smaller}

\* C23: for the deploy stage in incremental mode, a project that is scheduled
\* from a history with fewer revisions, with or without a recorded Output, is
\* scheduled from the current history too, and every path of its changed_files
\* there is in its changed_files here.
C23_DeployMonotone ==
    (JustEvaluated /\ last.stage = DEPLOY_STAGE_NAME) =>
        \A smaller \in SmallerHistories :
            \A output \in OutputsTried(smaller) :
                LET before == to_project_execution(last.project, last.stage,
                                                   smaller, output)
                IN  ~IsNone(before) =>
                        /\ ~IsNone(last.execution)
                        /\ before.some.changed_files
                              \subseteq last.execution.some.changed_files

\* a deploy evaluation over three revisions: the project is scheduled from a
\* history of one of them, and stays scheduled although the Output read is
\* valid for the newest revision, which touches none of its files
C23_Witness ==
    /\ Evaluated
    /\ last.stage = DEPLOY_STAGE_NAME
    /\ Len(changes_in_branch) = 3
    /\ ~IsNone(last.execution)
    /\ \E j \in DOMAIN changes_in_branch :
          /\ changes_in_branch[j].ord = 3
          /\ BuiltAt(last.output, changes_in_branch[j].hash)
          /\ changes_in_branch[j].files_touched
                \cap last.execution.some.changed_files = {}
    /\ \E smaller \in SmallerHistories :
          /\ Len(smaller) = 1
          /\ ~IsNone(to_project_execution(last.project, last.stage, smaller, None))

(******************************** C24 ***************************************)
\* the stages that the loop has passed without skipping them
StagesPassed ==
    {stages[j] : j \in {k \in DOMAIN stages :
                           /\ k < idx
                           /\ ~(Truthy(selected_stage) /\ selected_stage.some # stages[k])}}

\* C24: every stage of the list that the loop has passed and the single-stage
\* filter did not skip is a key of the mapping, whether its set is empty or
\* not; so the returned mapping has a key for every evaluated stage.
C24_EvaluatedStageIsKey ==
    /\ pc = "loop" => StagesPassed \subseteq DOMAIN build_set
    /\ pc = "done" => EvaluatedStages \subseteq DOMAIN build_set

\* an incremental call over a history that touches no loaded project returned
\* an empty set for each of its two stages
C24_Witness ==
    /\ pc = "done"
    /\ ~Forced
    /\ changes_in_branch # <<>>
    /\ loaded_projects # {}
    /\ DOMAIN build_set = ListedStages
    /\ Len(stages) = 2
    /\ \A s \in DOMAIN build_set : build_set[s] = {}

\* a forced call returned an empty set for a stage no loaded project has a step for
C24_WitnessForced ==
    /\ pc = "done"
    /\ Forced
    /\ loaded_projects # {}
    /\ \E s \in DOMAIN build_set :
          /\ build_set[s] = {}
          /\ \A p \in loaded_projects : ~Truthy(p.stages[s])

\* an incremental call over an empty history returned empty sets
C24_WitnessEmptyHistory ==
    /\ pc = "done"
    /\ ~Forced
    /\ changes_in_branch = <<>>
    /\ loaded_projects # {}
    /\ DOMAIN build_set # {}
    /\ \A s \in DOMAIN build_set : build_set[s] = {}

(******************************** C25 ***************************************)
\* path starts with prefix without lying in the directory prefix: the
\* directory it lies in has a name that extends the last component of prefix
Sibling(path, prefix) ==
    /\ startswith(path, prefix)
    /\ Len(path) > Len(prefix)
    /\ prefix # <<>>
    /\ prefix[Len(prefix)] # "/"
    /\ path[Len(prefix) + 1] # "/"

\* the root_path of the project and its dependency entries for the stage
Prefixes(project, stage) ==
    {project.root_path} \cup DeclaredDependencies(project, stage)

\* C25: is_invalidated is true for a path that merely extends, as a string, the
\* root_path of the project or one of its dependency entries for the stage
\* ("ab/x" for the prefix "a"), and such a path in the relevant changes of a
\* participating project schedules it, with the path in its changed_files.
C25_RawPrefixMatch ==
    last.called =>
        \A path \in Files :
            (\E prefix \in Prefixes(last.project, last.stage) : Sibling(path, prefix)) =>
                /\ is_invalidated(last.project, last.stage, path)
                /\ (Evaluated /\ path \in last.relevant) =>
                      /\ ~IsNone(last.execution)
                      /\ path \in last.execution.some.changed_files
                      /\ pc # "map" =>
                            last.execution.some \in build_set[last.stage]

\* a project with root_path "a" is scheduled with a path of the sibling
\* directory "ab" in its changed_files
C25_Witness ==
    /\ StageSetBuilt
    /\ Evaluated
    /\ last.project.root_path = RootA
    /\ ~IsNone(last.execution)
    /\ FileABX \in last.execution.some.changed_files
    /\ last.execution.some \in build_set[last.stage]

\* a project is scheduled by a path that only extends a dependency entry: it
\* lies neither under the root nor in the directory of any dependency
C25_WitnessDependency ==
    /\ StageSetBuilt
    /\ Evaluated
    /\ ~IsNone(last.execution)
    /\ \E path \in last.execution.some.changed_files :
          /\ ~startswith(path, last.project.root_path)
          /\ \E d \in DeclaredDependencies(last.project, last.stage) : Sibling(path, d)
          /\ \A d \in DeclaredDependencies(last.project, last.stage) : ~under(path, d)

(******************************** C26 ***************************************)
\* a command of the kind (its second word: list, uninstall, upgrade) was run
Ran(kind) == \E n \in 1..Len(helm_ran) : helm_ran[n][2] = kind

\* the removal of the existing chart was asked for and has ended
RemovalEnded ==
    /\ helm_call.some.delete_existing
    /\ helm_pc \in {"removed", "returned", "raised"}

\* C26: with delete_existing set, 'helm upgrade -i' is run only after the
\* removal of the existing chart returned a successful Output; a removal that
\* fails ends the call with that failed Output and without 'helm upgrade -i';
\* 'helm uninstall' is run only after 'helm list', and a removal that does not
\* uninstall reports success.
C26_HelmInstallOrdering ==
    /\ (helm_call.some.delete_existing /\ Ran("upgrade")) =>
          (IsOutput(helm_removed) /\ helm_removed.some.success)
    /\ (IsOutput(helm_removed) /\ ~helm_removed.some.success) =>
          (helm_pc = "returned" /\ helm_result = helm_removed /\ ~Ran("upgrade"))
    /\ Ran("uninstall") => Ran("list")
    /\ (RemovalEnded /\ ~Ran("uninstall")) =>
          (IsOutput(helm_removed) /\ helm_removed.some.success)

\* what the code does: install ends with an exception and has run no command,
\* with delete_existing in __remove_existing_chart and without it at its last call
C26_InstallRaises ==
    (helm_call.some.entry = "install" /\ helm_pc # "entered") =>
        /\ helm_pc = "raised"
        /\ helm_ran = <<>>
        /\ helm_result = Raised(IF helm_call.some.delete_existing
                                THEN "TypeError" ELSE "NameError")

\* install was called with delete_existing and has ended
C26_Reached ==
    /\ helm_call.some.entry = "install"
    /\ RemovalEnded

(******************************** C27 ***************************************)
\* the target versions of the shipped upgraders
TargetVersions == {UPGRADERS[n].target_version : n \in 1..Len(UPGRADERS)}

\* the target version of the last upgrader
LatestVersion == UPGRADERS[Len(UPGRADERS)].target_version

\* the call number n has returned
Returned(n) == Len(returned) >= n

\* C27: a manifest whose version (1.0.8 when the field is absent) is the target
\* version of a shipped upgrader comes back from upgrade_to_latest with the
\* target version of the last upgrader.
C27_ReachesLatest ==
    (Returned(1) /\ get_version(passed[1]) \in TargetVersions) =>
        get_version(heap[returned[1]]) = LatestVersion

\* what the code does: the result carries the latest version when an upgrader
\* changed the manifest, and is the manifest as it was passed otherwise
C27_LatestWhenChanged ==
    (Returned(1) /\ get_version(passed[1]) \in TargetVersions) =>
        \/ get_version(heap[returned[1]]) = LatestVersion
        \/ Content(heap[returned[1]]) = Content(passed[1])

\* a manifest of a known, older version was upgraded
C27_Reached ==
    /\ Returned(1)
    /\ get_version(passed[1]) \in TargetVersions \ {LatestVersion}

(******************************** C28 ***************************************)
\* C28: upgrade_to_latest applied to its own result returns an equal manifest;
\* the manifest passed to a call is the same after the call as before it; a
\* manifest whose version matches no upgrader is returned as it is.
C28_IdempotentInputUntouched ==
    /\ Returned(2) => heap[returned[2]] = heap[returned[1]]
    /\ heap[1] = passed[1]
    /\ Len(passed) = 2 => heap[returned[1]] = passed[2]
    /\ (Returned(1) /\ get_version(passed[1]) \notin TargetVersions) =>
          (returned[1] = 1 /\ heap[returned[1]] = passed[1])

\* a manifest was changed by the upgrade (a namespace was added to its
\* deployment), and the upgrade was applied to the result as well
C28_Witness ==
    /\ Returned(2)
    /\ Content(heap[returned[1]]) # Content(passed[1])
    /\ "deployment" \in Keys(passed[1])
    /\ Get(heap[returned[1]], "deployment", Dict(<<>>))
          # Get(passed[1], "deployment", Dict(<<>>))

\* a manifest of an unknown version went through both calls
C28_WitnessUnknownVersion ==
    /\ Returned(2)
    /\ get_version(passed[1]) \notin TargetVersions

(******************************** C29 ***************************************)
\* the default cluster name configured for the target of the run
DefaultClusterName == get_value(kubernetes_config.some.defaultCluster, target)

\* the override the project configures for the target, None without one
Override ==
    IF IsNone(deployment_cluster) THEN None ELSE get_value(deployment_cluster.some, target)

\* the name is the name of a cluster of the configured list
Listed(name) == Named(kubernetes_config.some.clusters, name) # {}

ClusterCallEnded == cluster_pc \in {"returned", "raised"}

\* C29: when the default cluster name of the target names no cluster of the
\* list the call fails with a ValueError; otherwise it returns the override
\* cluster when the override names a listed cluster, and the default cluster
\* in every other case.
C29_MissingDefaultIsValueError ==
    ClusterCallEnded =>
        IF ~Listed(DefaultClusterName)
        THEN cluster_result = Raised("ValueError")
        ELSE /\ cluster_pc = "returned"
             /\ cluster_result.some \in
                   {kubernetes_config.some.clusters[n] :
                       n \in Named(kubernetes_config.some.clusters,
                                   IF Listed(Override) THEN Override
                                   ELSE DefaultClusterName)}

\* what the code does: a default cluster that is not listed ends the call with
\* StopIteration, whatever the override; the rest is as the claim says
C29_MissingDefaultStopsIteration ==
    ClusterCallEnded =>
        IF ~Listed(DefaultClusterName)
        THEN cluster_result = Raised("StopIteration")
        ELSE /\ cluster_pc = "returned"
             /\ cluster_result =
                   Some(First(kubernetes_config.some.clusters,
                              IF Listed(Override) THEN Override ELSE DefaultClusterName))

\* the call ended for a configuration whose default cluster is not listed,
\* with clusters listed and an override that names one of them
C29_Reached ==
    /\ ClusterCallEnded
    /\ ~Listed(DefaultClusterName)
    /\ Listed(Override)

====
